---- MODULE Spec2Model ----
(***************************************************************************)
(* Taint-path reachability classification over the Python banking fixture. *)
(*                                                                         *)
(* The fixture (src/app.py, src/services, src/controllers, ...) is the     *)
(* program under analysis: its entry points, call chains, guards and       *)
(* protective functions are modelled from the source.  The classification  *)
(* engine (node classifier, path verdict engine, aggregator) is not part   *)
(* of the source tree; its operators are modelled from the design          *)
(* document, sections 3, 4.2, 4.4 and 4.5.                                 *)
(***************************************************************************)
EXTENDS Naturals, Sequences, FiniteSets, Bags, TLC

VARIABLES mode, path, verdict, sink, paths, pathVerdicts, sinkVerdict

\* The running application: the LegacyService instance that serves requests,
\* the instance enable_legacy_mode creates, and the last handled call with
\* the functions it entered, the sink calls it made and its response.
VARIABLES legacy_service, temp_service, request, called, executed, response

engineVars == <<mode, path, verdict, sink, paths, pathVerdicts, sinkVerdict>>

appVars == <<legacy_service, temp_service, request, called, executed, response>>

\* the ingested graph, the run, one unit of work per sink, the report
VARIABLES graph, run, units, report
graphVars == <<graph, run, units, report>>
\* AdminService.rate_limit_state, the clock read by time.time(), and the
\* timestamps of the calls the rate limiter let through in the last window
VARIABLES rate_limit_state, now, limiter, granted, overlapped
adminVars == <<rate_limit_state, now, limiter, granted, overlapped>>
otherVars == <<appVars, graphVars, adminVars>>
nonAppVars == <<engineVars, graphVars, adminVars>>

vars == <<engineVars, appVars, graphVars, adminVars>>

(***************************************************************************)
(* Bounds of the model.                                                    *)
(***************************************************************************)
\* intermediate nodes on a generic path (between entry point and sink)
MaxPathLen == 2
\* path verdicts fed to the aggregator for one generic sink
MaxPaths == 3

(***************************************************************************)
(* Data model (design document, section 3).                                *)
(***************************************************************************)
BranchConditions == {"Always", "Never", "Runtime"}

PathVerdicts ==
    {"VULNERABLE", "PARTIALLY_MITIGATED", "SANITIZED", "AUTH_PROTECTED", "DEAD"}

OverallVerdicts ==
    {"MUST_FIX", "GOOD_TO_FIX", "FALSE_POSITIVE", "DEAD_CODE"}

\* role tags a node may declare
KnownRoleTags ==
    {"none", "sanitizer", "validator-strict", "validator-weak",
     "validator-none", "authz-gate", "rate-limiter"}

NoPath == [entry |-> "none", registered |-> FALSE, nodes |-> <<>>,
           conds |-> <<>>, sinkNode |-> "none"]

NoSinkVerdict == [sink |-> "none", overall |-> "none", reason |-> {},
                  evidence |-> <<>>]

(***************************************************************************)
(* Node Classifier (section 4.2): role from the declared tag only.         *)
(***************************************************************************)
\* Variant: a tag outside the known set counts as a sanitizer.
classifyNode_TrustsUnknownTag(node) ==
    CASE node.tag = "sanitizer"        -> [role |-> "Sanitizer",   strength |-> "None"]
      [] node.tag = "validator-strict" -> [role |-> "Validator",   strength |-> "Strict"]
      [] node.tag = "validator-weak"   -> [role |-> "Validator",   strength |-> "Weak"]
      [] node.tag = "validator-none"   -> [role |-> "Validator",   strength |-> "None"]
      [] node.tag = "authz-gate"       -> [role |-> "AuthzGate",   strength |-> "None"]
      [] node.tag = "rate-limiter"     -> [role |-> "RateLimiter", strength |-> "None"]
      [] node.tag = "none"             -> [role |-> "None",        strength |-> "None"]
      [] OTHER                         -> [role |-> "Sanitizer",   strength |-> "None"]

classifyNode(node) ==
    CASE node.tag = "sanitizer"        -> [role |-> "Sanitizer",   strength |-> "None"]
      [] node.tag = "validator-strict" -> [role |-> "Validator",   strength |-> "Strict"]
      [] node.tag = "validator-weak"   -> [role |-> "Validator",   strength |-> "Weak"]
      [] node.tag = "validator-none"   -> [role |-> "Validator",   strength |-> "None"]
      [] node.tag = "authz-gate"       -> [role |-> "AuthzGate",   strength |-> "None"]
      [] node.tag = "rate-limiter"     -> [role |-> "RateLimiter", strength |-> "None"]
      [] OTHER                         -> [role |-> "None",        strength |-> "None"]

(***************************************************************************)
(* Path predicates (section 3) and the Path Verdict Engine (section 4.4).  *)
(***************************************************************************)
HasNever(p) == \E i \in DOMAIN p.conds : p.conds[i] = "Never"

isLive(p) ==
    /\ \A i \in DOMAIN p.conds : p.conds[i] \in {"Always", "Runtime"}
    /\ p.registered

authGateSeen(p) ==
    \E i \in DOMAIN p.nodes : classifyNode(p.nodes[i]).role = "AuthzGate"

HasNeutralizer(p) ==
    \E i \in DOMAIN p.nodes :
        LET r == classifyNode(p.nodes[i])
        IN  \/ r.role = "Sanitizer"
            \/ r.role = "Validator" /\ r.strength = "Strict"

HasWeakValidator(p) ==
    \E i \in DOMAIN p.nodes :
        LET r == classifyNode(p.nodes[i])
        IN  r.role = "Validator" /\ r.strength = "Weak"

classifyPath(p) ==
    IF ~isLive(p)               THEN "DEAD"
    ELSE IF HasNeutralizer(p)   THEN "SANITIZED"
    ELSE IF authGateSeen(p)     THEN "AUTH_PROTECTED"
    ELSE IF HasWeakValidator(p) THEN "PARTIALLY_MITIGATED"
    ELSE "VULNERABLE"

(***************************************************************************)
(* Aggregator (section 4.5): worst live path dominates.                    *)
(***************************************************************************)
Range(seq) == {seq[i] : i \in DOMAIN seq}

LiveVerdicts(vs) == Range(vs) \ {"DEAD"}

Overall(vs) ==
    LET live == LiveVerdicts(vs)
    IN  IF live = {}                            THEN "DEAD_CODE"
        ELSE IF "VULNERABLE" \in live           THEN "MUST_FIX"
        ELSE IF "PARTIALLY_MITIGATED" \in live  THEN "GOOD_TO_FIX"
        ELSE "FALSE_POSITIVE"

\* Variant: the first live path decides instead of the worst one.
aggregate_FirstLivePathWins(s, vs) ==
    LET live  == SelectSeq(vs, LAMBDA v : v # "DEAD")
        first == IF live = <<>> THEN <<>> ELSE <<live[1]>>
    IN  [sink     |-> s,
         overall  |-> Overall(first),
         reason   |-> IF Overall(first) = "FALSE_POSITIVE"
                      THEN LiveVerdicts(first) ELSE {},
         evidence |-> vs]

aggregate(s, vs) ==
    [sink     |-> s,
     overall  |-> Overall(vs),
     reason   |-> IF Overall(vs) = "FALSE_POSITIVE" THEN LiveVerdicts(vs) ELSE {},
     evidence |-> vs]

(***************************************************************************)
(* The fixture program as a call graph.                                    *)
(*                                                                         *)
(* Entry points, guards, flags and protective functions are read off the   *)
(* source.  Three handlers are called generate_report; they are told apart *)
(* by a module prefix.                                                     *)
(***************************************************************************)

\* Variant: the /api/search route decorator is missing.
RegisteredEntryPoints_SearchUnrouted ==
    {"get_user_profile", "app.generate_report",
     "render_custom_template", "get_preferences", "admin_audit_logs",
     "admin_template_preview", "legacy_import_data", "health_check"}

\* Variant: internal_diagnostic_endpoint carries a route decorator.
RegisteredEntryPoints_DiagnosticRouted ==
    {"search_transactions", "get_user_profile", "app.generate_report",
     "render_custom_template", "get_preferences", "admin_audit_logs",
     "admin_template_preview", "legacy_import_data", "health_check",
     "internal_diagnostic_endpoint"}

\* Variant: deprecated_batch_processor is wired to a route.
RegisteredEntryPoints_BatchRouted ==
    {"search_transactions", "get_user_profile", "app.generate_report",
     "render_custom_template", "get_preferences", "admin_audit_logs",
     "admin_template_preview", "legacy_import_data", "health_check",
     "deprecated_batch_processor"}

\* Functions the application serves: the @app.route handlers of app.py.
\* internal_diagnostic_endpoint, unused_legacy_search and the uncalled
\* methods of LegacyService carry no route decorator.  The handlers of
\* account_controller carry @account_bp.route, but no module registers
\* account_bp with the application (nor report_bp), so the application
\* answers their URLs with 404 and they are not reachable from the outside.
RegisteredEntryPoints ==
    {"search_transactions", "get_user_profile", "app.generate_report",
     "render_custom_template", "get_preferences", "admin_audit_logs",
     "admin_template_preview", "legacy_import_data", "health_check"}

\* Variant: get_preferences lost its login_required decorator.
EntryGate_PreferencesOpen(entry) ==
    CASE entry = "admin_audit_logs"       -> "admin_required"
      [] entry = "admin_template_preview" -> "admin_required"
      [] OTHER                            -> "none"

\* The authentication decorator wrapped around a handler, "none" without one.
EntryGate(entry) ==
    CASE entry = "get_preferences"        -> "login_required"
      [] entry = "admin_audit_logs"       -> "admin_required"
      [] entry = "admin_template_preview" -> "admin_required"
      [] OTHER                            -> "none"

\* Variant: __init__ leaves the deprecated feature switched on.
LegacyFlagInit_LegacyOn ==
    [legacy_mode_enabled |-> TRUE, admin_legacy_mode |-> FALSE]

\* LegacyService.__init__: the two feature flags.
LegacyFlagInit ==
    [legacy_mode_enabled |-> FALSE, admin_legacy_mode |-> FALSE]

\* Variant: enable_legacy_mode assigns the flag on self.
SelfAssignedFlags_EnableWritesSelf == {"legacy_mode_enabled"}

\* Flags of LegacyService that some method assigns on self after __init__.
\* enable_legacy_mode assigns legacy_mode_enabled on a fresh temporary
\* instance only, so no flag of the serving instance is ever written.
SelfAssignedFlags == {}

\* The condition of a call edge, decided once from the guard in front of the
\* call: flag is the LegacyService flag tested ("none" if no flag), input is
\* TRUE when the guard also tests a request value or may raise.
BranchConditionOf(flag, input) ==
    IF flag = "none"
    THEN IF input THEN "Runtime" ELSE "Always"
    ELSE IF flag \in SelfAssignedFlags THEN "Runtime"
    ELSE IF ~LegacyFlagInit[flag]      THEN "Never"
    ELSE IF input                      THEN "Runtime"
    ELSE "Always"

\* app.py decorators: both reject the request unless the session passes.
GateTag(fn) ==
    IF fn \in {"login_required", "admin_required"} THEN "authz-gate" ELSE "none"

\* Variant: validate_user_id matches with re.search, a partial check.
ValidationServiceTag_UserIdSearch(fn) ==
    CASE fn = "validate_user_id"      -> "validator-weak"
      [] fn = "validate_alphanumeric" -> "validator-strict"
      [] fn = "check_template_safety" -> "validator-weak"
      [] OTHER                        -> "none"

\* Variant: check_template_safety accepts every template.
ValidationServiceTag_NoTemplateCheck(fn) ==
    CASE fn = "validate_user_id"      -> "validator-strict"
      [] fn = "validate_alphanumeric" -> "validator-strict"
      [] OTHER                        -> "none"

\* ValidationService: re.fullmatch over the whole value is a strict
\* validator, a re.search blacklist is a weak one.
ValidationServiceTag(fn) ==
    CASE fn = "validate_user_id"      -> "validator-strict"
      [] fn = "validate_alphanumeric" -> "validator-strict"
      [] fn = "check_template_safety" -> "validator-weak"
      [] OTHER                        -> "none"

\* Variant: render_admin_preview renders the content as received.
TemplateServiceTag_NoSanitizer(fn) == "none"

\* TemplateService: _sanitize_template_content strips the template markers
\* and HTML-escapes.
TemplateServiceTag(fn) ==
    IF fn = "_sanitize_template_content" THEN "sanitizer" ELSE "none"

\* DatabaseService: QueryBuilder binds every value as a parameter.
DatabaseServiceTag(fn) ==
    IF fn \in {"QueryBuilder.filter_by", "QueryBuilder.filter_like"}
    THEN "sanitizer" ELSE "none"

\* AdminService: _check_rate_limit.
AdminServiceTag(fn) ==
    IF fn = "_check_rate_limit" THEN "rate-limiter" ELSE "none"

\* The role tag each function of the fixture carries.
FixtureTag(fn) ==
    IF GateTag(fn) # "none"                   THEN GateTag(fn)
    ELSE IF ValidationServiceTag(fn) # "none" THEN ValidationServiceTag(fn)
    ELSE IF TemplateServiceTag(fn) # "none"   THEN TemplateServiceTag(fn)
    ELSE IF DatabaseServiceTag(fn) # "none"   THEN DatabaseServiceTag(fn)
    ELSE AdminServiceTag(fn)

FixtureNode(fn) == [id |-> fn, tag |-> FixtureTag(fn)]

\* A path of the fixture: the handler's decorator, if any, is the first node
\* after the entry point; the edge out of it is taken only when the session
\* passes the check.
FixturePath(entry, fns, conds, sinkNode) ==
    LET gate   == EntryGate(entry)
        allFns == IF gate = "none" THEN fns ELSE <<gate>> \o fns
        allCs  == IF gate = "none" THEN conds
                  ELSE <<"Always", BranchConditionOf("none", TRUE)>> \o Tail(conds)
    IN  [entry      |-> entry,
         registered |-> entry \in RegisteredEntryPoints,
         nodes      |-> [i \in 1..Len(allFns) |-> FixtureNode(allFns[i])],
         conds      |-> allCs,
         sinkNode   |-> sinkNode]

FixtureSinks ==
    {"VULN1", "VULN2", "VULN3", "VULN4", "VULN5", "VULN6", "VULN7", "VULN8",
     "DIAGNOSTIC", "BATCH", "MIGRATION", "ACCT_REPORT", "ACCT_LEGACY_SEARCH"}

\* A sink of the fixture is a finding as the source labels it: VULN 8 groups
\* the three cursor.execute calls marked "VULN 8 PATH 1", "VULN 8 PATH 2" and
\* "VULN 8 PATH 3" in legacy_service, one per path.  The findings of app.py
\* keep their number; of the findings of account_controller, which all end
\* in DatabaseHelper.execute_raw_query, ACCT_REPORT is its VULN 5 (paths A
\* and B) and ACCT_LEGACY_SEARCH its VULN 6.
\* The paths to each sink, entry points in declaration order, calls in
\* declaration order.  conds[i] guards the edge into the i-th node after the
\* entry point; the last condition guards the edge into the sink call.
FixturePaths(s) ==
    CASE s = "VULN1" ->
           << FixturePath("search_transactions",
                  <<"search_transactions_vulnerable">>,
                  <<"Always", "Always">>, "cursor.execute") >>
      [] s = "VULN2" ->
           << FixturePath("get_user_profile",
                  <<"validate_user_id", "get_user_by_id_with_validation">>,
                  <<"Always", BranchConditionOf("none", TRUE), "Always">>,
                  "cursor.execute") >>
      [] s = "VULN3" ->
           << FixturePath("app.generate_report",
                  <<"generate_report_parameterized", "_build_safe_query",
                    "QueryBuilder.__init__", "QueryBuilder.filter_by",
                    "QueryBuilder.filter_like", "QueryBuilder.execute">>,
                  <<"Always", "Always", "Always", "Always", "Always", "Always",
                    "Always">>,
                  "cursor.execute") >>
      [] s = "VULN4" ->
           << FixturePath("render_custom_template",
                  <<"check_template_safety", "render_user_template">>,
                  <<"Always", BranchConditionOf("none", TRUE), "Always">>,
                  "render_template_string") >>
      [] s = "VULN5" ->
           << FixturePath("get_preferences",
                  <<"render_preference_template">>,
                  <<"Always", "Always">>, "render_template_string") >>
      [] s = "VULN6" ->
           << FixturePath("admin_audit_logs",
                  <<"get_audit_logs", "get_audit_logs_by_date">>,
                  <<"Always", "Always", "Always">>, "cursor.execute") >>
      [] s = "VULN7" ->
           << FixturePath("admin_template_preview",
                  <<"preview_template", "_check_rate_limit",
                    "render_admin_preview", "_sanitize_template_content">>,
                  <<"Always", "Always", BranchConditionOf("none", TRUE),
                    "Always", "Always">>,
                  "render_template_string") >>
      [] s = "VULN8" ->
           << FixturePath("legacy_import_data",
                  <<"process_legacy_import", "execute_legacy_query">>,
                  <<"Always", BranchConditionOf("legacy_mode_enabled", FALSE),
                    "Always">>, "cursor.execute"),
              FixturePath("legacy_import_data",
                  <<"process_legacy_import", "_process_admin_legacy_import">>,
                  <<"Always", BranchConditionOf("admin_legacy_mode", TRUE),
                    "Always">>, "cursor.execute"),
              FixturePath("legacy_import_data",
                  <<"process_legacy_import", "_validate_import_data",
                    "validate_alphanumeric", "_process_modern_import_with_query">>,
                  <<"Always", "Always", "Always", BranchConditionOf("none", TRUE),
                    "Always">>, "cursor.execute") >>
      [] s = "DIAGNOSTIC" ->
           << FixturePath("internal_diagnostic_endpoint",
                  <<"run_diagnostic_query">>,
                  <<"Always", "Always">>, "cursor.execute") >>
      [] s = "BATCH" ->
           << FixturePath("deprecated_batch_processor", <<>>,
                  <<"Always">>, "cursor.execute") >>
      [] s = "MIGRATION" ->
           << FixturePath("old_migration_handler", <<>>,
                  <<"Always">>, "cursor.execute") >>
      [] s = "ACCT_REPORT" ->
           << FixturePath("account.generate_report",
                  <<"generate_detailed_report", "get_detailed_report",
                    "execute_raw_query">>,
                  <<BranchConditionOf("none", TRUE), "Always", "Always", "Always">>,
                  "cursor.execute"),
              FixturePath("account.generate_report",
                  <<"generate_legacy_report", "get_legacy_report",
                    "execute_raw_query">>,
                  <<BranchConditionOf("none", TRUE), "Always", "Always", "Always">>,
                  "cursor.execute") >>
      [] s = "ACCT_LEGACY_SEARCH" ->
           << FixturePath("unused_legacy_search",
                  <<"legacy_search", "legacy_search_raw", "execute_raw_query">>,
                  <<"Always", "Always", "Always", "Always">>,
                  "cursor.execute") >>

AllFixturePaths ==
    UNION { Range(FixturePaths(s)) : s \in FixtureSinks }

(***************************************************************************)
(* Inputs of the engine that do not come from the fixture: every path with *)
(* up to MaxPathLen tagged nodes between its entry point and its sink.     *)
(***************************************************************************)
GenericNodes == { [id |-> t, tag |-> t] : t \in KnownRoleTags }

GenericPath(r, ns, cs) ==
    [entry      |-> "entry",
     registered |-> r,
     nodes      |-> ns,
     conds      |-> cs,
     sinkNode   |-> "sink"]

(***************************************************************************)
(* Graph Model (sections 3, 4.1 and 6): nodes {id, kind, tag}, edges       *)
(* {from, to, cond} in declaration order, registered entry-point ids.      *)
(***************************************************************************)
\* most edges of an ingested graph
MaxEdges == 4

NodeIdsOf(g) == { g.nodes[i].id : i \in DOMAIN g.nodes }

NodeOf(g, id) == g.nodes[CHOOSE i \in DOMAIN g.nodes : g.nodes[i].id = id]

IdsOfKind(g, kind) ==
    LET picked == SelectSeq(g.nodes, LAMBDA n : n.kind = kind)
    IN  [i \in DOMAIN picked |-> picked[i].id]

\* addNode fails with DuplicateNodeError on id collision
DuplicateIds(g) ==
    { g.nodes[i].id : i \in { j \in DOMAIN g.nodes :
                                 \E k \in DOMAIN g.nodes :
                                     k # j /\ g.nodes[k].id = g.nodes[j].id } }

\* addEdge fails with DanglingEdgeError if an edge references an unknown id
DanglingEdges(g) ==
    { i \in DOMAIN g.edges :
        g.edges[i].from \notin NodeIdsOf(g) \/ g.edges[i].to \notin NodeIdsOf(g) }

\* a Sink no node reaches in the raw graph
OrphanedSinks(g) ==
    { id \in Range(IdsOfKind(g, "Sink")) :
        ~\E i \in DOMAIN g.edges : g.edges[i].to = id /\ g.edges[i].from # id }

\* section 7: StructuralGraphError (dangling edge, duplicate id, orphaned
\* sink)
StructuralGraphError(g) ==
    IF DuplicateIds(g) # {}
    THEN [kind |-> "DuplicateNodeError", ids |-> DuplicateIds(g)]
    ELSE IF DanglingEdges(g) # {}
    THEN [kind |-> "DanglingEdgeError", ids |-> DanglingEdges(g)]
    ELSE IF OrphanedSinks(g) # {}
    THEN [kind |-> "OrphanedSinkError", ids |-> OrphanedSinks(g)]
    ELSE [kind |-> "none", ids |-> {}]

\* ids reachable from id over edges of any condition, id included
RECURSIVE ReachableFrom(_, _)
ReachableFrom(g, seen) ==
    LET next == seen \cup { g.edges[i].to : i \in { j \in DOMAIN g.edges :
                                                      g.edges[j].from \in seen } }
    IN  IF next = seen THEN seen ELSE ReachableFrom(g, next)

Reaches(g, from, to) == to \in ReachableFrom(g, {from})

(***************************************************************************)
(* Path Enumerator (section 4.3): entry points in declaration order,       *)
(* depth first over edges in declaration order.                            *)
(***************************************************************************)
\* Variant: one revisit is allowed on top of the first visit.
RevisitCap_Two == 1 + 1

\* occurrences of a node allowed on one path

RevisitCap == 1

Occurrences(seq, x) == Cardinality({ i \in DOMAIN seq : seq[i] = x })

\* the Path of the node-id sequence ns (entry first) and conditions cs
PathTo(g, s, ns, cs, truncated) ==
    [entry      |-> ns[1],
     registered |-> ns[1] \in g.registered,
     nodes      |-> [i \in 1..(Len(ns) - 1) |->
                        [id |-> ns[i + 1], tag |-> NodeOf(g, ns[i + 1]).tag]],
     conds      |-> cs,
     sinkNode   |-> s,
     truncated  |-> truncated]

\* Variant: a Never edge ends the branch and nothing is recorded.
neverBranch_Dropped(g, s, ns, cs, e) == <<>>

\* a Never edge truncates the branch; it is recorded as one path when it
\* is a route to the sink
neverBranch(g, s, ns, cs, e) ==
    IF e.to = s
    THEN << PathTo(g, s, ns, Append(cs, e.cond), FALSE) >>
    ELSE IF /\ NodeOf(g, e.to).kind # "Sink"
            /\ Occurrences(ns, e.to) < RevisitCap
            /\ Reaches(g, e.to, s)
    THEN << PathTo(g, s, Append(ns, e.to), Append(cs, e.cond), TRUE) >>
    ELSE <<>>

\* paths to s that extend the walk ns by edges i, i+1, ... of its last node
RECURSIVE search(_, _, _, _, _)
search(g, s, ns, cs, i) ==
    IF i > Len(g.edges) THEN <<>>
    ELSE LET e    == g.edges[i]
             rest == search(g, s, ns, cs, i + 1)
         IN  IF e.from # ns[Len(ns)] THEN rest
             ELSE IF e.cond = "Never" THEN neverBranch(g, s, ns, cs, e) \o rest
             ELSE IF e.to = s
             THEN << PathTo(g, s, ns, Append(cs, e.cond), FALSE) >> \o rest
             ELSE IF \/ NodeOf(g, e.to).kind = "Sink"
                     \/ Occurrences(ns, e.to) >= RevisitCap
             THEN rest
             ELSE search(g, s, Append(ns, e.to), Append(cs, e.cond), 1) \o rest

RECURSIVE searchFromEntries(_, _, _, _)
searchFromEntries(g, s, entries, k) ==
    IF k > Len(entries) THEN <<>>
    ELSE search(g, s, <<entries[k]>>, <<>>, 1)
             \o searchFromEntries(g, s, entries, k + 1)

enumeratePaths(g, s) == searchFromEntries(g, s, IdsOfKind(g, "EntryPoint"), 1)

\* Variant: enumeration prunes the Never edges it met from the graph.
graphAfterEnumeration_PrunesDeadEdges(g, s) ==
    [g EXCEPT !.edges = SelectSeq(g.edges, LAMBDA e : e.cond # "Never")]

\* the graph is read only: enumeration leaves it as it was
graphAfterEnumeration(g, s) == g

(***************************************************************************)
(* Report Model (sections 4.6 and 6) and the per-sink unit of work         *)
(* (section 5): enumeration, classification, aggregation.                  *)
(***************************************************************************)
NoError == [kind |-> "none", ids |-> {}]

NoReport == [sinks |-> <<>>, warnings |-> {}, error |-> NoError,
             summary |-> [total |-> 0, counts |-> [v \in OverallVerdicts |-> 0]]]

NoGraph == [nodes |-> <<>>, edges |-> <<>>, registered |-> {}]

PendingUnit == [stage |-> "pending", paths |-> <<>>, verdicts |-> <<>>,
                verdict |-> NoSinkVerdict]

\* sinks in scope, in declaration order (section 3: an orphaned sink is
\* excluded from scope)
InScope(g) ==
    SelectSeq(IdsOfKind(g, "Sink"), LAMBDA id : id \notin OrphanedSinks(g))

NodeSequence(p) ==
    <<p.entry>> \o [i \in DOMAIN p.nodes |-> p.nodes[i].id]
        \o (IF p.truncated THEN <<>> ELSE <<p.sinkNode>>)

\* the contributing paths of a sink, each with its node ids and verdict
reportPaths(ps, vs) ==
    [i \in DOMAIN ps |-> [nodes |-> NodeSequence(ps[i]), verdict |-> vs[i]]]

\* UnclassifiableRoleError: one warning per node with an unknown role tag
roleWarnings(g) ==
    { [kind |-> "UnclassifiableRoleError", node |-> g.nodes[i].id] :
        i \in { j \in DOMAIN g.nodes : g.nodes[j].tag \notin KnownRoleTags } }

render(g, us) ==
    LET scope == InScope(g)
    IN  [sinks    |-> [i \in DOMAIN scope |->
                          [sinkId         |-> scope[i],
                           overallVerdict |-> us[scope[i]].verdict.overall,
                           paths          |-> reportPaths(us[scope[i]].paths,
                                                          us[scope[i]].verdicts)]],
         warnings |-> roleWarnings(g),
         error    |-> NoError,
         summary  |-> [total  |-> Len(scope),
                       counts |-> [v \in OverallVerdicts |->
                                      Cardinality({ i \in DOMAIN scope :
                                          us[scope[i]].verdict.overall = v })]]]

enumerated(g, s) ==
    [PendingUnit EXCEPT !.stage = "enumerated", !.paths = enumeratePaths(g, s)]

classified(u) ==
    [u EXCEPT !.stage = "classified",
              !.verdicts = [i \in DOMAIN u.paths |-> classifyPath(u.paths[i])]]

aggregated(s, u) ==
    [u EXCEPT !.stage = "aggregated", !.verdict = aggregate(s, u.verdicts)]

\* the report of a run that works through the sinks one after another
sequentialReport(g) ==
    render(g, [s \in Range(InScope(g)) |-> aggregated(s, classified(enumerated(g, s)))])

(***************************************************************************)
(* The graphs handed to the engine: two entry points, one call node with   *)
(* a declared tag, two sinks, and a choice of edges with conditions.       *)
(***************************************************************************)
CandidateEdges ==
    << [from |-> "e1", to |-> "a"],  [from |-> "e2", to |-> "a"],
       [from |-> "a",  to |-> "a"],  [from |-> "a",  to |-> "e1"],
       [from |-> "a",  to |-> "s1"], [from |-> "a",  to |-> "s2"],
       [from |-> "e2", to |-> "s2"] >>

\* declared tags of the call node; the last is not a known role tag
FamilyTags == {"none", "validator-strict", "encrypts"}

FamilyRegistered == { {"e1", "e2"}, {"e2"} }

FamilyDefects == {"none", "dangling", "duplicate"}

FamilyGraph(chosen, cond, registered, tag, defect) ==
    LET idx == SelectSeq([i \in 1..Len(CandidateEdges) |-> i],
                         LAMBDA i : i \in chosen)
    IN  [nodes |->
             << [id |-> "e1", kind |-> "EntryPoint", tag |-> "none"],
                [id |-> "e2", kind |-> "EntryPoint", tag |-> "none"],
                [id |-> "a",  kind |-> "Call",       tag |-> tag],
                [id |-> "s1", kind |-> "Sink",       tag |-> "none"],
                [id |-> "s2", kind |-> "Sink",       tag |-> "none"] >>
             \o (IF defect = "duplicate"
                 THEN << [id |-> "a", kind |-> "Call", tag |-> "none"] >>
                 ELSE <<>>),
         edges |->
             [k \in DOMAIN idx |->
                 [from |-> CandidateEdges[idx[k]].from,
                  to   |-> CandidateEdges[idx[k]].to,
                  cond |-> cond[idx[k]]]]
             \o (IF defect = "dangling"
                 THEN << [from |-> "a", to |-> "ghost", cond |-> "Always"] >>
                 ELSE <<>>),
         registered |-> registered]

GraphInit ==
    /\ graph = NoGraph
    /\ run = "idle"
    /\ units = <<>>
    /\ report = NoReport

\* ingestion: a structural error (section 7: dangling edge, duplicate id,
\* orphaned sink) is fatal and aborts the run
Ingest(g) ==
    /\ run = "idle"
    /\ graph' = g
    /\ IF StructuralGraphError(g) # NoError
       THEN /\ run' = "aborted"
            /\ report' = [NoReport EXCEPT !.error = StructuralGraphError(g)]
            /\ units' = <<>>
       ELSE /\ run' = "running"
            /\ report' = NoReport
            /\ units' = [s \in Range(InScope(g)) |-> PendingUnit]
    /\ UNCHANGED <<engineVars, appVars, adminVars>>

EnumerateSink(s) ==
    /\ run = "running"
    /\ units[s].stage = "pending"
    /\ units' = [units EXCEPT ![s] = enumerated(graph, s)]
    /\ graph' = graphAfterEnumeration(graph, s)
    /\ UNCHANGED <<run, report, engineVars, appVars, adminVars>>

ClassifySink(s) ==
    /\ run = "running"
    /\ units[s].stage = "enumerated"
    /\ units' = [units EXCEPT ![s] = classified(units[s])]
    /\ UNCHANGED <<graph, run, report, engineVars, appVars, adminVars>>

AggregateSink(s) ==
    /\ run = "running"
    /\ units[s].stage = "classified"
    /\ units' = [units EXCEPT ![s] = aggregated(s, units[s])]
    /\ UNCHANGED <<graph, run, report, engineVars, appVars, adminVars>>

Render ==
    /\ run = "running"
    /\ \A s \in DOMAIN units : units[s].stage = "aggregated"
    /\ report' = render(graph, units)
    /\ run' = "rendered"
    /\ UNCHANGED <<graph, units, engineVars, appVars, adminVars>>

\* the next run starts from nothing: no state is kept between runs
Discard ==
    /\ run \in {"rendered", "aborted"}
    /\ graph' = NoGraph
    /\ run' = "idle"
    /\ units' = <<>>
    /\ report' = NoReport
    /\ UNCHANGED <<engineVars, appVars, adminVars>>

GraphNext ==
    \/ /\ run = "idle"
       /\ \E chosen \in SUBSET (1..Len(CandidateEdges)) :
            /\ Cardinality(chosen) <= MaxEdges
            /\ \E cond \in [chosen -> BranchConditions],
                  registered \in FamilyRegistered, tag \in FamilyTags,
                  defect \in FamilyDefects :
                    Ingest(FamilyGraph(chosen, cond, registered, tag, defect))
    \/ \E s \in DOMAIN units : EnumerateSink(s)
    \/ \E s \in DOMAIN units : ClassifySink(s)
    \/ \E s \in DOMAIN units : AggregateSink(s)
    \/ Render
    \/ Discard

(***************************************************************************)
(* The fixture program at run time.  A string is a sequence of one-        *)
(* character strings.                                                      *)
(***************************************************************************)
\* longest request value of the import and report endpoints
MaxStrLen == 2
\* longest template content
MaxTemplateLen == 4

Strings(chars, n) == UNION { [1..k -> chars] : k \in 0..n }

\* characters of request values: a letter, the underscore, the single quote
ImportChars == {"a", "_", "'"}

\* characters of template content
TemplateChars == {"{", "}", "%", "<"}

\* the default of request.json.get('type', 'standard')
StandardType == <<"s", "t", "a", "n", "d", "a", "r", "d">>

\* the character class [a-zA-Z0-9_]
WordChars ==
    {"a", "b", "c", "d", "e", "f", "g", "h", "i", "j", "k", "l", "m",
     "n", "o", "p", "q", "r", "s", "t", "u", "v", "w", "x", "y", "z",
     "A", "B", "C", "D", "E", "F", "G", "H", "I", "J", "K", "L", "M",
     "N", "O", "P", "Q", "R", "S", "T", "U", "V", "W", "X", "Y", "Z",
     "0", "1", "2", "3", "4", "5", "6", "7", "8", "9", "_"}

\* ValidationService.validate_alphanumeric: re.fullmatch(r'^[a-zA-Z0-9_]+$')
validate_alphanumeric(value) ==
    /\ Len(value) >= 1
    /\ \A i \in 1..Len(value) : value[i] \in WordChars

\* str.replace(old, new): every non-overlapping occurrence, left to right
RECURSIVE Replace(_, _, _)
Replace(str, old, new) ==
    IF Len(str) < Len(old) THEN str
    ELSE IF SubSeq(str, 1, Len(old)) = old
         THEN new \o Replace(SubSeq(str, Len(old) + 1, Len(str)), old, new)
         ELSE <<str[1]>> \o Replace(Tail(str), old, new)

\* sub in str
Contains(str, sub) ==
    \E i \in 1..(Len(str) - Len(sub) + 1) : SubSeq(str, i, i + Len(sub) - 1) = sub

\* html.escape(s) with quote=True, one character
EscapeChar(c) ==
    CASE c = "&"  -> <<"&", "a", "m", "p", ";">>
      [] c = "<"  -> <<"&", "l", "t", ";">>
      [] c = ">"  -> <<"&", "g", "t", ";">>
      [] c = "\"" -> <<"&", "q", "u", "o", "t", ";">>
      [] c = "'"  -> <<"&", "#", "x", "2", "7", ";">>
      [] OTHER    -> <<c>>

RECURSIVE html_escape(_)
html_escape(str) ==
    IF str = <<>> THEN <<>> ELSE EscapeChar(str[1]) \o html_escape(Tail(str))

\* TemplateService._sanitize_template_content
sanitize_template_content(content) ==
    LET c1 == Replace(content, <<"{", "{">>, <<>>)
        c2 == Replace(c1, <<"}", "}">>, <<>>)
        c3 == Replace(c2, <<"{", "%">>, <<>>)
        c4 == Replace(c3, <<"%", "}">>, <<>>)
    IN  html_escape(c4)

\* a call of a sink: the function making it, the text handed to it and the
\* caller-supplied values interpolated into that text
SinkCall(sinkName, fn, text, values) ==
    [sink |-> sinkName, fn |-> fn, text |-> text, values |-> values]

Outcome(fns, sinkCalls, status, message) ==
    [called |-> fns, executed |-> sinkCalls,
     result |-> [status |-> status, message |-> message]]

\* render_template_string on a text of the preview: Jinja2 opens an
\* expression at "{{" and a statement at "{%" and raises TemplateSyntaxError
\* when it is not closed by a well-formed "}}" or "%}".  A sanitized content
\* that keeps an opening marker and also a closing one after it needs a
\* template_content of 8 characters or more; below that every opening marker
\* is unclosed.
TemplateSyntaxError(template_str) ==
    \/ Contains(template_str, <<"{", "{">>)
    \/ Contains(template_str, <<"{", "%">>)

\* TemplateService.render_admin_preview: nothing catches the error of the
\* render call
render_admin_preview(template_content) ==
    LET sanitized_content == sanitize_template_content(template_content)
        template_str ==
            <<"<div class='preview'>">> \o sanitized_content \o <<"</div>">>
        rendering ==
            << SinkCall("render_template_string", "render_admin_preview",
                        template_str, <<sanitized_content>>) >>
        fns == <<"render_admin_preview", "_sanitize_template_content">>
    IN  IF TemplateSyntaxError(template_str)
        THEN Outcome(fns, rendering, "raised", "TemplateSyntaxError")
        ELSE Outcome(fns, rendering, "rendered", "preview")

\* the character class [0-9]
DigitChars == {"0", "1", "2", "3", "4", "5", "6", "7", "8", "9"}

(***************************************************************************)
(* How sqlite3 reads the statements the fixture builds by interpolation.   *)
(* The reader is modelled for values made of the letter a, the underscore, *)
(* digits, the single quote, the space and the characters , ( ) | - %:     *)
(* literals with '' for one quote, numbers, the operators - | || %, the    *)
(* comment --, parentheses.  A name outside a literal is no column of the  *)
(* tables and makes the statement fail.  Other characters (other letters,  *)
(* which can spell keywords, other operators, the semicolon, NUL) are not  *)
(* covered: SqlTokens has no case for them.                                *)
(***************************************************************************)
\* the pieces of the statement texts that stand between the values
SqlNames == {"a", "_", "legacy@example.com"}

\* index of the quote closing the literal whose text starts at j, 0 when the
\* literal is not closed
RECURSIVE LiteralEnd(_, _)
LiteralEnd(text, j) ==
    IF j > Len(text) THEN 0
    ELSE IF text[j] = "'"
         THEN IF j < Len(text) /\ text[j + 1] = "'"
              THEN LiteralEnd(text, j + 2)
              ELSE j
         ELSE LiteralEnd(text, j + 1)

\* index after the digits that start at j
RECURSIVE NumberEnd(_, _)
NumberEnd(text, j) ==
    IF j <= Len(text) /\ text[j] \in DigitChars
    THEN NumberEnd(text, j + 1)
    ELSE j

\* the tokens of text from index i on; "BAD" where no token can be read
RECURSIVE SqlTokens(_, _)
SqlTokens(text, i) ==
    IF i > Len(text) THEN <<>>
    ELSE LET c    == text[i]
             next == IF i < Len(text) THEN text[i + 1] ELSE ""
         IN  CASE c = " " -> SqlTokens(text, i + 1)
               [] c = "-" /\ next = "-" -> <<>>
               [] c = "-" /\ next # "-" -> <<"MINUS">> \o SqlTokens(text, i + 1)
               [] c = "|" /\ next = "|" -> <<"OP">> \o SqlTokens(text, i + 2)
               [] c = "|" /\ next # "|" -> <<"OP">> \o SqlTokens(text, i + 1)
               [] c = "%" -> <<"OP">> \o SqlTokens(text, i + 1)
               [] c \in {"(", ")", ","} -> <<c>> \o SqlTokens(text, i + 1)
               [] c = "'" ->
                    LET e == LiteralEnd(text, i + 1)
                    IN  IF e = 0 THEN <<"BAD">>
                        ELSE <<"STR">> \o SqlTokens(text, e + 1)
               [] c \in DigitChars ->
                    LET e == NumberEnd(text, i)
                    IN  IF e <= Len(text) /\ text[e] \in SqlNames
                        THEN <<"BAD">>
                        ELSE <<"NUM">> \o SqlTokens(text, e)
               [] c \in SqlNames -> <<"BAD">>

\* expressions over the tokens; each operator gives the index after what it
\* read, 0 when the tokens from i on do not start with it
RECURSIVE SqlExpr(_, _)
RECURSIVE SqlUnary(_, _)
RECURSIVE SqlOperands(_, _)
RECURSIVE SqlRows(_, _)

SqlPrimary(t, i) ==
    IF i = 0 \/ i > Len(t) THEN 0
    ELSE IF t[i] \in {"STR", "NUM"} THEN i + 1
    ELSE IF t[i] = "("
         THEN LET j == SqlExpr(t, i + 1)
              IN  IF j # 0 /\ j <= Len(t) /\ t[j] = ")" THEN j + 1 ELSE 0
         ELSE 0

SqlUnary(t, i) ==
    IF i # 0 /\ i <= Len(t) /\ t[i] = "MINUS"
    THEN SqlUnary(t, i + 1)
    ELSE SqlPrimary(t, i)

SqlOperands(t, j) ==
    IF j # 0 /\ j <= Len(t) /\ t[j] \in {"OP", "MINUS"}
    THEN SqlOperands(t, SqlUnary(t, j + 1))
    ELSE j

SqlExpr(t, i) == SqlOperands(t, SqlUnary(t, i))

\* one row of a VALUES clause for two columns
SqlRow(t, i) ==
    IF i = 0 \/ i > Len(t) \/ t[i] # "(" THEN 0
    ELSE LET j == SqlExpr(t, i + 1)
         IN  IF j = 0 \/ j > Len(t) \/ t[j] # "," THEN 0
             ELSE LET k == SqlExpr(t, j + 1)
                  IN  IF k = 0 \/ k > Len(t) \/ t[k] # ")" THEN 0 ELSE k + 1

SqlRows(t, j) ==
    IF j # 0 /\ j <= Len(t) /\ t[j] = ","
    THEN SqlRows(t, SqlRow(t, j + 1))
    ELSE j

\* INSERT INTO users (username, email) VALUES <tail> is a statement
ValuesParse(tail) ==
    LET t == SqlTokens(tail, 1)
    IN  /\ "BAD" \notin Range(t)
        /\ SqlRows(t, SqlRow(t, 1)) = Len(t) + 1

\* SELECT * FROM audit_logs WHERE timestamp LIKE <tail> is a statement
LikeParses(tail) ==
    LET t == SqlTokens(tail, 1)
    IN  /\ "BAD" \notin Range(t)
        /\ t # <<>>
        /\ SqlExpr(t, 1) = Len(t) + 1

\* LegacyService.execute_legacy_query: the insert into users succeeds when
\* the text is a statement, a value that closes the literal and completes the
\* row included; otherwise cursor.execute raises sqlite3.OperationalError,
\* which nothing catches.
execute_legacy_query(legacy_data) ==
    LET inserting ==
            << SinkCall("cursor.execute", "execute_legacy_query",
                   <<"INSERT INTO users (username, email) VALUES ('">>
                       \o legacy_data \o <<"', 'legacy@example.com')">>,
                   <<legacy_data>>) >>
        tail == <<"(", "'">> \o legacy_data
                    \o <<"'", ",", " ", "'", "legacy@example.com", "'", ")">>
    IN  IF ~ValuesParse(tail)
        THEN Outcome(<<"execute_legacy_query">>, inserting,
                     "raised", "OperationalError")
        ELSE Outcome(<<"execute_legacy_query">>, inserting, "inserted", "legacy")

\* LegacyService._process_admin_legacy_import.  The schema created by
\* DatabaseService._initialize_schema has no admin_imports table, so
\* cursor.execute raises sqlite3.OperationalError on every input and nothing
\* catches it.
process_admin_legacy_import(import_data) ==
    Outcome(<<"_process_admin_legacy_import">>,
            << SinkCall("cursor.execute", "_process_admin_legacy_import",
                   <<"INSERT INTO admin_imports (data) VALUES ('">>
                       \o import_data \o <<"')">>,
                   <<import_data>>) >>,
            "raised", "OperationalError")

\* LegacyService._process_modern_import_with_query.  The schema created by
\* DatabaseService._initialize_schema has no import_log table, so
\* cursor.execute raises and the except branch answers.
process_modern_import_with_query(validated_data, import_type) ==
    Outcome(<<"_process_modern_import_with_query">>,
            << SinkCall("cursor.execute", "_process_modern_import_with_query",
                   <<"INSERT INTO import_log (data, type) VALUES ('">>
                       \o validated_data \o <<"', '">> \o import_type \o <<"')">>,
                   <<validated_data, import_type>>) >>,
            "error", "Import failed")

\* one call after another
Then(first, second) ==
    [called   |-> first.called \o second.called,
     executed |-> first.executed \o second.executed,
     result   |-> second.result]

\* LegacyService.process_legacy_import on the instance self
process_legacy_import(self, import_data, is_admin, import_type) ==
    LET entered == Outcome(<<"process_legacy_import">>, <<>>, "none", "none")
    IN  IF self.legacy_mode_enabled
        THEN Then(entered, execute_legacy_query(import_data))
        ELSE IF is_admin /\ self.admin_legacy_mode
        THEN Then(entered, process_admin_legacy_import(import_data))
        ELSE LET validating ==
                     Outcome(<<"process_legacy_import", "_validate_import_data",
                               "validate_alphanumeric">>, <<>>,
                             "error", "Import data must be alphanumeric")
             IN  IF ~validate_alphanumeric(import_data)
                 THEN validating
                 ELSE Then(validating,
                           process_modern_import_with_query(import_data, import_type))

\* Variant: enable_legacy_mode switches the flag of the instance it is
\* called on.
enable_legacy_mode_AssignsSelf(self, admin_password) ==
    IF admin_password = "deprecated_feature"
    THEN [self    |-> [self EXCEPT !.legacy_mode_enabled = TRUE],
          created |-> <<>>,
          ret     |-> TRUE]
    ELSE [self |-> self, created |-> <<>>, ret |-> FALSE]

\* LegacyService.enable_legacy_mode: the flag is set on a new instance
enable_legacy_mode(self, admin_password) ==
    IF admin_password = "deprecated_feature"
    THEN [self    |-> self,
          created |-> << [LegacyFlagInit EXCEPT !.legacy_mode_enabled = TRUE] >>,
          ret     |-> TRUE]
    ELSE [self |-> self, created |-> <<>>, ret |-> FALSE]

\* values of the type parameter of /report
ReportTypes == {"summary", "detailed", "legacy", "monthly"}

\* AccountRepository.get_detailed_report / get_legacy_report through
\* DatabaseHelper.execute_raw_query.  The in-memory database of
\* DatabaseHelper has no table, so cursor.execute raises and nothing
\* catches it.
report_query(serviceFn, repositoryFn, table, account_id) ==
    Outcome(<<serviceFn, repositoryFn, "execute_raw_query">>,
            << SinkCall("cursor.execute", "execute_raw_query",
                   <<"SELECT * FROM ", table, " WHERE account_id = '">>
                       \o account_id \o <<"'">>,
                   <<account_id>>) >>,
            "500", "OperationalError")

\* account_controller.generate_report
account_generate_report(report_type, account_id) ==
    LET entered == Outcome(<<"account.generate_report">>, <<>>, "none", "none")
    IN  IF report_type = "detailed"
        THEN Then(entered, report_query("generate_detailed_report",
                      "get_detailed_report", "account_details", account_id))
        ELSE IF report_type = "legacy"
        THEN Then(entered, report_query("generate_legacy_report",
                      "get_legacy_report", "legacy_reports", account_id))
        ELSE Then(entered, Outcome(<<>>, <<>>, "200", "Safe summary report"))

(***************************************************************************)
(* Admin endpoints: session check, rate limiter, template preview, audit.  *)
(***************************************************************************)
\* latest clock value
MaxTime == 60

rate_limit_window == 60

rate_limit_max_requests == 10

\* len(template_content) > 5000
MaxPreviewChars == 5000

RateLimitedOperations == {"admin_template_preview"}

\* a session cookie: "absent" stands for a key that is not in the session
NoSession == [user_id |-> "absent", role |-> "absent", csrf_token |-> "absent"]

Sessions ==
    { NoSession,
      [user_id |-> "absent", role |-> "admin", csrf_token |-> "absent"],
      [user_id |-> "7", role |-> "absent", csrf_token |-> "tok1"],
      [user_id |-> "7", role |-> "user",  csrf_token |-> "tok1"],
      [user_id |-> "1", role |-> "admin", csrf_token |-> "tok1"] }

\* values of the X-CSRF-Token request header
CsrfHeaders == {"absent", "tok1", "tok2"}

\* Variant: only the login is checked, as login_required does.
admin_required_LoginOnly(session) ==
    IF session.user_id = "absent"
    THEN [status |-> "401", message |-> "Authentication required"]
    ELSE [status |-> "pass", message |-> "none"]

\* app.admin_required: the answer of the decorator, "pass" to go on
admin_required(session) ==
    IF session.user_id = "absent"
    THEN [status |-> "401", message |-> "Authentication required"]
    ELSE IF session.role # "admin"
    THEN [status |-> "403", message |-> "Admin access required"]
    ELSE [status |-> "pass", message |-> "none"]

RecentOf(timestamps, current_time) ==
    SelectSeq(timestamps, LAMBDA timestamp :
                  current_time - timestamp < rate_limit_window)

\* The threads of the server that can be inside _check_rate_limit together:
\* app.run serves each request on a thread of its own and AdminService
\* takes no lock.
Threads == {"t1", "t2"}

\* a thread outside _check_rate_limit
IdleCall == [pc |-> "idle", operation |-> "none", current_time |-> 0,
             kept |-> <<>>]

\* AdminService.preview_template after its rate-limit check returned allowed
preview_template(allowed, template_content) ==
    LET entered == Outcome(<<"preview_template", "_check_rate_limit">>, <<>>,
                           "none", "none")
    IN  IF ~allowed
        THEN Then(entered, Outcome(<<>>, <<>>, "200", "Rate limit exceeded"))
        ELSE IF Len(template_content) > MaxPreviewChars
        THEN Then(entered, Outcome(<<>>, <<>>, "200", "Template content too large"))
        ELSE LET rendered == render_admin_preview(template_content)
             IN  IF rendered.result.status = "raised"
                 THEN Then(entered, rendered)
                 ELSE Then(entered,
                           Then(rendered,
                                Outcome(<<"_filter_admin_output">>, <<>>,
                                        "200", "preview")))

\* AdminService.get_audit_logs: the audit_logs table exists and is empty.
\* When the text is no statement cursor.execute raises
\* sqlite3.OperationalError, nothing catches it and _enrich_audit_logs is not
\* reached.
get_audit_logs(date_filter) ==
    LET selecting ==
            << SinkCall("cursor.execute", "get_audit_logs_by_date",
                   <<"SELECT * FROM audit_logs WHERE timestamp LIKE '">>
                       \o date_filter \o <<"%'">>,
                   <<date_filter>>) >>
        tail == <<"'">> \o date_filter \o <<"%", "'">>
    IN  IF LikeParses(tail)
        THEN Outcome(<<"get_audit_logs", "get_audit_logs_by_date",
                       "_enrich_audit_logs">>, selecting, "200", "[]")
        ELSE Outcome(<<"get_audit_logs", "get_audit_logs_by_date">>, selecting,
                     "raised", "OperationalError")

\* a handler behind @admin_required
AdminGuarded(session, handlerName, handled) ==
    LET gate == admin_required(session)
    IN  IF gate.status = "pass"
        THEN Then(Outcome(<<"admin_required", handlerName>>, <<>>, "none", "none"),
                  handled)
        ELSE Outcome(<<"admin_required">>, <<>>, gate.status, gate.message)

(***************************************************************************)
(* Profile lookup and the SQL input sanitizers.                            *)
(***************************************************************************)
\* longest input of sanitize_sql_input
MaxSqlLen == 4

\* characters of the user_id parameter: a digit, a letter, the single
\* quote, the line feed
UserIdChars == {"1", "a", "'", "\n"}

\* characters of sanitizer input
SqlChars == {"'", "-", "/", "*"}

\* Variant: re.match, which accepts any string that starts with digits.
validate_user_id_PrefixMatch(user_id) ==
    /\ Len(user_id) >= 1
    /\ user_id[1] \in DigitChars

\* ValidationService.validate_user_id: TRUE when it returns user_id, FALSE
\* when it raises ValueError; re.fullmatch(r'^[0-9]+$')
validate_user_id(user_id) ==
    /\ Len(user_id) >= 1
    /\ \A i \in 1..Len(user_id) : user_id[i] \in DigitChars

\* app.get_user_profile: the users table exists and is empty; a ValueError
\* is not caught
get_user_profile(user_id) ==
    IF validate_user_id(user_id)
    THEN Outcome(<<"get_user_profile", "validate_user_id",
                   "get_user_by_id_with_validation">>,
                 << SinkCall("cursor.execute", "get_user_by_id_with_validation",
                        <<"SELECT * FROM users WHERE id = ">> \o user_id,
                        <<user_id>>) >>,
                 "200", "null")
    ELSE Outcome(<<"get_user_profile", "validate_user_id">>, <<>>,
                 "500", "ValueError")

dangerous_chars ==
    << <<"'">>, <<"\"">>, <<";">>, <<"-", "-">>, <<"/", "*">>, <<"*", "/">> >>

\* for char in dangerous_chars: sanitized = sanitized.replace(char, '')
RECURSIVE RemoveEach(_, _, _)
RemoveEach(sanitized, chars, k) ==
    IF k > Len(chars) THEN sanitized
    ELSE RemoveEach(Replace(sanitized, chars[k], <<>>), chars, k + 1)

\* utils.security.sanitize_sql_input
sanitize_sql_input(input_value) == RemoveEach(input_value, dangerous_chars, 1)

\* ValidationService.sanitize_sql_input
ValidationService_sanitize_sql_input(input_value) ==
    RemoveEach(input_value, dangerous_chars, 1)

SanitizerImplementations == {"utils.security", "ValidationService"}

NoRequest == [op |-> "none", args |-> <<>>]

NoResponse == [status |-> "none", message |-> "none"]

AppInit ==
    /\ legacy_service = LegacyFlagInit
    /\ temp_service = <<>>
    /\ request = NoRequest
    /\ called = <<>>
    /\ executed = <<>>
    /\ response = NoResponse

AdminInit ==
    /\ rate_limit_state = [operation \in RateLimitedOperations |-> <<>>]
    /\ now = 0
    /\ granted = EmptyBag
    /\ overlapped = FALSE
    /\ limiter = [th \in Threads |-> IdleCall]

\* Flask answers an exception that leaves a view function with status 500
Served(outcome) ==
    IF outcome.result.status = "raised"
    THEN [outcome EXCEPT !.result.status = "500"]
    ELSE outcome

\* the server handles one request at a time
Handled(op, args, outcome) ==
    /\ request = NoRequest
    /\ request' = [op |-> op, args |-> args]
    /\ called' = outcome.called
    /\ executed' = outcome.executed
    /\ response' = outcome.result

\* POST /api/legacy/import
LegacyImport(import_data, is_admin, import_type) ==
    /\ Handled("legacy_import_data", <<import_data, is_admin, import_type>>,
               Served(Then(Outcome(<<"legacy_import_data">>, <<>>, "none", "none"),
                           process_legacy_import(legacy_service, import_data,
                                                 is_admin, import_type))))
    /\ UNCHANGED <<legacy_service, temp_service>>
    /\ UNCHANGED nonAppVars

\* a call of LegacyService.enable_legacy_mode on the serving instance
EnableLegacyMode(admin_password) ==
    LET r == enable_legacy_mode(legacy_service, admin_password)
    IN  /\ legacy_service' = r.self
        /\ temp_service' = r.created
        /\ Handled("enable_legacy_mode", <<admin_password>>,
                   Outcome(<<"enable_legacy_mode">>, <<>>,
                           IF r.ret THEN "True" ELSE "False", "none"))
        /\ UNCHANGED nonAppVars

\* Variant: account_bp is registered and GET /report runs generate_report.
AccountReport_Routed(report_type, account_id) ==
    /\ Handled("GET /report", <<report_type, account_id>>,
               Served(account_generate_report(report_type, account_id)))
    /\ UNCHANGED <<legacy_service, temp_service>>
    /\ UNCHANGED nonAppVars

\* GET /report: the application has no such URL rule (account_bp is never
\* registered), no view function runs and the answer is 404
AccountReport(report_type, account_id) ==
    /\ Handled("GET /report", <<report_type, account_id>>,
               Outcome(<<>>, <<>>, "404", "Not Found"))
    /\ UNCHANGED <<legacy_service, temp_service>>
    /\ UNCHANGED nonAppVars

\* a call of TemplateService.render_admin_preview
RenderAdminPreview(template_content) ==
    /\ Handled("render_admin_preview", <<template_content>>,
               render_admin_preview(template_content))
    /\ UNCHANGED <<legacy_service, temp_service>>
    /\ UNCHANGED nonAppVars

\* GET /api/user/profile
GetUserProfile(user_id) ==
    /\ Handled("get_user_profile", <<user_id>>, get_user_profile(user_id))
    /\ UNCHANGED <<legacy_service, temp_service>>
    /\ UNCHANGED nonAppVars

\* a call of one of the two sanitize_sql_input functions
SanitizeSqlInput(implementation, input_value) ==
    /\ Handled("sanitize_sql_input", <<implementation, input_value>>,
               [called   |-> <<"sanitize_sql_input">>,
                executed |-> <<>>,
                result   |-> [status  |-> "returned",
                              message |-> "none",
                              value   |-> IF implementation = "utils.security"
                                  THEN sanitize_sql_input(input_value)
                                  ELSE ValidationService_sanitize_sql_input(input_value)]])
    /\ UNCHANGED <<legacy_service, temp_service>>
    /\ UNCHANGED nonAppVars

\* _check_rate_limit, line 106: the thread reads the clock
Entered(th, operation) ==
    [limiter EXCEPT ![th] = [pc |-> "clean", operation |-> operation,
                             current_time |-> now, kept |-> <<>>]]

\* another thread is between line 106 and its return
OthersInside(th) ==
    \E o \in Threads \ {th} :
        limiter[o].pc \in {"clean", "store", "test", "append"}

\* a call of AdminService._check_rate_limit on thread th; overlapped
\* records that two calls have been inside the function together
CheckRateLimit(th, operation) ==
    /\ limiter[th].pc = "idle"
    /\ limiter' = Entered(th, operation)
    /\ overlapped' = (overlapped \/ OthersInside(th))
    /\ UNCHANGED <<rate_limit_state, now, granted, appVars, engineVars, graphVars>>

\* lines 110-111: the list comprehension builds the list of the timestamps
\* still inside the window
CleanOldEntries(th) ==
    /\ limiter[th].pc = "clean"
    /\ limiter' = [limiter EXCEPT
           ![th].kept = RecentOf(rate_limit_state[limiter[th].operation],
                                 limiter[th].current_time),
           ![th].pc = "store"]
    /\ UNCHANGED <<rate_limit_state, now, granted, overlapped, appVars, engineVars, graphVars>>

\* line 109: the new list replaces the stored one
StoreCleaned(th) ==
    /\ limiter[th].pc = "store"
    /\ rate_limit_state' =
           [rate_limit_state EXCEPT ![limiter[th].operation] = limiter[th].kept]
    /\ limiter' = [limiter EXCEPT ![th].kept = <<>>, ![th].pc = "test"]
    /\ UNCHANGED <<now, granted, overlapped, appVars, engineVars, graphVars>>

\* Variant: the limit is compared with > instead of >=.
TestLimit_OffByOne(th) ==
    /\ limiter[th].pc = "test"
    /\ limiter' = [limiter EXCEPT ![th].pc =
           IF Len(rate_limit_state[limiter[th].operation]) > rate_limit_max_requests
           THEN "False" ELSE "append"]
    /\ UNCHANGED <<rate_limit_state, now, granted, overlapped, appVars, engineVars, graphVars>>

\* lines 115-116: the length of the stored list is compared with the limit
TestLimit(th) ==
    /\ limiter[th].pc = "test"
    /\ limiter' = [limiter EXCEPT ![th].pc =
           IF Len(rate_limit_state[limiter[th].operation]) >= rate_limit_max_requests
           THEN "False" ELSE "append"]
    /\ UNCHANGED <<rate_limit_state, now, granted, overlapped, appVars, engineVars, graphVars>>

\* how many of the calls let through carry a timestamp in [t, t + seconds)
GrantedWithin(t, seconds) ==
    BagCardinality([ u \in { u \in DOMAIN granted : t <= u /\ u < t + seconds }
                       |-> granted[u] ])

\* lines 119-120: the timestamp is appended and the call returns True;
\* granted is the bag of the timestamps of the calls that returned True
AddCurrentRequest(th) ==
    /\ limiter[th].pc = "append"
    /\ rate_limit_state' =
           [rate_limit_state EXCEPT ![limiter[th].operation] =
                Append(@, limiter[th].current_time)]
    /\ granted' = granted (+) SetToBag({limiter[th].current_time})
    /\ limiter' = [limiter EXCEPT ![th].pc = "True"]
    /\ UNCHANGED <<now, overlapped, appVars, engineVars, graphVars>>

\* the caller of _check_rate_limit on thread th goes on with the result
Returned(th) ==
    /\ limiter[th].pc \in {"True", "False"}
    /\ limiter' = [limiter EXCEPT ![th] = IdleCall]
    /\ UNCHANGED <<rate_limit_state, now, granted, overlapped, appVars, engineVars, graphVars>>

\* POST /api/admin/template/preview arrives and is served by thread t1 up
\* to line 106 of _check_rate_limit; a session that admin_required refuses
\* is answered at once
AdminTemplatePreview(session, csrf_header, template_content) ==
    LET refused == AdminGuarded(session, "admin_template_preview",
                                Outcome(<<>>, <<>>, "none", "none"))
        passes  == admin_required(session).status = "pass"
    IN  /\ request = NoRequest
        /\ limiter["t1"].pc = "idle"
        /\ request' = [op   |-> "admin_template_preview",
                       args |-> <<session, csrf_header, template_content>>]
        /\ executed' = <<>>
        /\ IF passes
           THEN /\ called' = <<"admin_required", "admin_template_preview",
                               "preview_template", "_check_rate_limit">>
                /\ response' = NoResponse
                /\ limiter' = Entered("t1", "admin_template_preview")
                /\ overlapped' = (overlapped \/ OthersInside("t1"))
           ELSE /\ called' = refused.called
                /\ response' = refused.result
                /\ UNCHANGED <<limiter, overlapped>>
        /\ UNCHANGED <<rate_limit_state, now, granted, legacy_service,
                       temp_service, engineVars, graphVars>>

\* _check_rate_limit returned to preview_template on thread t1: lines 85 to
\* 99 and the answer of the view function
PreviewAfterRateLimit ==
    LET session          == request.args[1]
        template_content == request.args[3]
        served == Served(AdminGuarded(session, "admin_template_preview",
                      preview_template(limiter["t1"].pc = "True",
                                       template_content)))
    IN  /\ request.op = "admin_template_preview"
        /\ response = NoResponse
        /\ limiter["t1"].pc \in {"True", "False"}
        /\ called' = served.called
        /\ executed' = served.executed
        /\ response' = served.result
        /\ limiter' = [limiter EXCEPT !["t1"] = IdleCall]
        /\ UNCHANGED <<request, rate_limit_state, now, granted, overlapped, legacy_service,
                       temp_service, engineVars, graphVars>>

\* GET /api/admin/audit
AdminAuditLogs(session, date_filter) ==
    /\ Handled("admin_audit_logs", <<session, date_filter>>,
               Served(AdminGuarded(session, "admin_audit_logs",
                                   get_audit_logs(date_filter))))
    /\ UNCHANGED <<legacy_service, temp_service>>
    /\ UNCHANGED nonAppVars

\* time passes
Tick(seconds) ==
    /\ now + seconds <= MaxTime
    /\ now' = now + seconds
    /\ UNCHANGED <<rate_limit_state, granted, overlapped, limiter, appVars, engineVars, graphVars>>

(***************************************************************************)
(* The engine as a state machine.                                          *)
(*   mode "idle"       nothing in progress                                 *)
(*        "classified" one path was classified (path, verdict)             *)
(*        "feeding"    path verdicts of one sink are being collected       *)
(*        "enumerated" the paths of a fixture sink were enumerated         *)
(*        "aggregated" the sink verdict was computed                       *)
(***************************************************************************)
EngineInit ==
    /\ mode = "idle"
    /\ path = NoPath
    /\ verdict = "none"
    /\ sink = "none"
    /\ paths = <<>>
    /\ pathVerdicts = <<>>
    /\ sinkVerdict = NoSinkVerdict

Init ==
    /\ EngineInit
    /\ AppInit
    /\ GraphInit
    /\ AdminInit

\* Path Verdict Engine on one path.
ClassifyPath(p) ==
    /\ mode = "idle"
    /\ mode' = "classified"
    /\ path' = p
    /\ verdict' = classifyPath(p)
    /\ UNCHANGED <<sink, paths, pathVerdicts, sinkVerdict>>
    /\ UNCHANGED otherVars

\* A sink whose path verdicts arrive one by one, in any order.
BeginSink ==
    /\ mode = "idle"
    /\ mode' = "feeding"
    /\ sink' = "sink"
    /\ UNCHANGED <<path, verdict, paths, pathVerdicts, sinkVerdict>>
    /\ UNCHANGED otherVars

FeedVerdict(v) ==
    /\ mode = "feeding"
    /\ sink = "sink"
    /\ Len(pathVerdicts) < MaxPaths
    /\ pathVerdicts' = Append(pathVerdicts, v)
    /\ UNCHANGED <<mode, path, verdict, sink, paths, sinkVerdict>>
    /\ UNCHANGED otherVars

\* Path Enumerator on a sink of the fixture.
EnumerateFixture(s) ==
    /\ mode = "idle"
    /\ mode' = "enumerated"
    /\ sink' = s
    /\ paths' = FixturePaths(s)
    /\ UNCHANGED <<path, verdict, pathVerdicts, sinkVerdict>>
    /\ UNCHANGED otherVars

\* Path Verdict Engine on every enumerated path, in enumeration order.
ClassifyFixture ==
    /\ mode = "enumerated"
    /\ mode' = "feeding"
    /\ pathVerdicts' = [i \in 1..Len(paths) |-> classifyPath(paths[i])]
    /\ UNCHANGED <<path, verdict, sink, paths, sinkVerdict>>
    /\ UNCHANGED otherVars

\* Aggregator on the collected path verdicts.
Aggregate ==
    /\ mode = "feeding"
    /\ mode' = "aggregated"
    /\ sinkVerdict' = aggregate(sink, pathVerdicts)
    /\ UNCHANGED <<path, verdict, sink, paths, pathVerdicts>>
    /\ UNCHANGED otherVars

\* Every run computes its verdicts afresh.
Reset ==
    /\ mode \in {"classified", "aggregated"}
    /\ mode' = "idle"
    /\ path' = NoPath
    /\ verdict' = "none"
    /\ sink' = "none"
    /\ paths' = <<>>
    /\ pathVerdicts' = <<>>
    /\ sinkVerdict' = NoSinkVerdict
    /\ UNCHANGED otherVars

Next ==
    \/ /\ mode = "idle"
       /\ \E n \in 0..MaxPathLen, r \in BOOLEAN :
            \E ns \in [1..n -> GenericNodes],
               cs \in [1..(n + 1) -> BranchConditions] :
                ClassifyPath(GenericPath(r, ns, cs))
    \/ /\ mode = "idle"
       /\ \E p \in AllFixturePaths : ClassifyPath(p)
    \/ BeginSink
    \/ \E v \in PathVerdicts : FeedVerdict(v)
    \/ \E s \in FixtureSinks : EnumerateFixture(s)
    \/ ClassifyFixture
    \/ Aggregate
    \/ Reset

Spec == Init /\ [][Next]_vars

\* the response is sent and the server waits for the next request
Respond ==
    /\ request # NoRequest
    /\ response # NoResponse
    /\ request' = NoRequest
    /\ called' = <<>>
    /\ executed' = <<>>
    /\ response' = NoResponse
    /\ UNCHANGED <<legacy_service, temp_service>>
    /\ UNCHANGED nonAppVars

AppNext ==
    \/ Respond
    \/ request = NoRequest /\ \E d \in Strings(ImportChars, MaxStrLen), adm \in BOOLEAN,
          t \in Strings(ImportChars, MaxStrLen) \cup {StandardType} :
            LegacyImport(d, adm, t)
    \/ \E pw \in {"deprecated_feature", "letmein"} : EnableLegacyMode(pw)
    \/ \E t \in ReportTypes, id \in Strings(ImportChars, MaxStrLen) :
            AccountReport(t, id)
    \/ \E c \in Strings(TemplateChars, MaxTemplateLen) : RenderAdminPreview(c)
    \/ \E id \in Strings(UserIdChars, MaxStrLen) : GetUserProfile(id)
    \/ \E impl \in SanitizerImplementations, v \in Strings(SqlChars, MaxSqlLen) :
            SanitizeSqlInput(impl, v)

SpecApp == Init /\ [][AppNext]_vars

\* contents of the previews: the empty one, one the sanitizer empties, and
\* one whose sanitized text is an opening marker
PreviewContents ==
    { <<>>, <<"{", "{">>, <<"{", "}", "}", "{">> }

\* date filters of the audit requests
AuditDates == { <<>>, <<"2">>, <<"'">> }

\* the steps of a thread inside _check_rate_limit
RateLimitSteps(th) ==
    \/ CleanOldEntries(th)
    \/ StoreCleaned(th)
    \/ TestLimit(th)
    \/ AddCurrentRequest(th)

\* calls are made while fewer than this many were let through
MaxGranted == 11

\* steps of the clock: just inside and just outside the window
TimeSteps == {rate_limit_window - 1, rate_limit_window}

\* Thread t1 serves the request whose answer is recorded; thread t2 serves
\* another preview request of an admin at the same time, of which only the
\* call of _check_rate_limit touches state the two share.  An answer is
\* sent before the threads and the clock go on: sending it reads and
\* changes nothing of theirs, so the order of the two makes no difference.
AdminNext ==
    \/ Respond
    \/ /\ request = NoRequest
       /\ BagCardinality(granted) < MaxGranted
       /\ \E session \in Sessions, csrf_header \in CsrfHeaders,
             c \in PreviewContents :
               AdminTemplatePreview(session, csrf_header, c)
    \/ PreviewAfterRateLimit
    \/ \E session \in Sessions, d \in AuditDates :
            AdminAuditLogs(session, d)
    \/ /\ response = NoResponse
       /\ \/ /\ BagCardinality(granted) < MaxGranted
             /\ CheckRateLimit("t2", "admin_template_preview")
          \/ Returned("t2")
          \/ \E th \in Threads : RateLimitSteps(th)
          \/ Tick(rate_limit_window)

SpecAdmin == Init /\ [][AdminNext]_vars

RateLimitNext ==
    \/ /\ BagCardinality(granted) < MaxGranted
       /\ \E th \in Threads, operation \in RateLimitedOperations :
              CheckRateLimit(th, operation)
    \/ \E th \in Threads : RateLimitSteps(th)
    \/ \E th \in Threads : Returned(th)
    \/ \E seconds \in TimeSteps : Tick(seconds)

SpecRateLimit == Init /\ [][RateLimitNext]_vars

SpecGraph == Init /\ [][GraphNext]_vars

TypeOK ==
    /\ mode \in {"idle", "classified", "feeding", "enumerated", "aggregated"}
    /\ verdict \in PathVerdicts \cup {"none"}
    /\ \A i \in DOMAIN pathVerdicts : pathVerdicts[i] \in PathVerdicts
    /\ sinkVerdict.overall \in OverallVerdicts \cup {"none"}

(***************************************************************************)
(* Properties.  The predicates below read a path by its declared tags and  *)
(* node ids, not through the engine's own helpers.                         *)
(***************************************************************************)
TagOnPath(p, t) == \E i \in DOMAIN p.nodes : p.nodes[i].tag = t

NodeOnPath(p, id) == \E i \in DOMAIN p.nodes : p.nodes[i].id = id

NoNeverEdge(p) == \A i \in DOMAIN p.conds : p.conds[i] # "Never"

SanitizerOrStrictOnPath(p) ==
    TagOnPath(p, "sanitizer") \/ TagOnPath(p, "validator-strict")

Count(vs, v) == Cardinality({i \in DOMAIN vs : vs[i] = v})

\* the path verdicts of a fixture sink are held next to its paths
FixtureClassified(s) ==
    /\ mode \in {"feeding", "aggregated"}
    /\ sink = s

\* C1: a path with at least one Never edge is classified DEAD whatever the
\* roles on it and whether or not its entry point is registered; the two
\* flag-guarded branches of process_legacy_import are such paths.
C1_NeverEdgeIsDead ==
    /\ (mode = "classified" /\ ~NoNeverEdge(path)) => verdict = "DEAD"
    /\ FixtureClassified("VULN8") =>
         \A i \in DOMAIN paths :
            (\/ NodeOnPath(paths[i], "execute_legacy_query")
             \/ NodeOnPath(paths[i], "_process_admin_legacy_import"))
            => (~NoNeverEdge(paths[i]) /\ pathVerdicts[i] = "DEAD")

\* C1 witness: a registered path with a Never edge that also carries a
\* sanitizer and an authorization gate was classified DEAD.
C1_Witness ==
    /\ mode = "classified"
    /\ ~NoNeverEdge(path)
    /\ path.registered
    /\ TagOnPath(path, "sanitizer")
    /\ TagOnPath(path, "authz-gate")
    /\ verdict = "DEAD"

\* C2 as stated: every path with a Sanitizer or Strict Validator before its
\* sink and no Never edge is classified SANITIZED.
C2_SanitizedWithoutNever ==
    (mode = "classified" /\ SanitizerOrStrictOnPath(path) /\ NoNeverEdge(path))
        => verdict = "SANITIZED"

\* C2 amended: every path from a registered entry point with a Sanitizer or
\* Strict Validator before its sink and no Never edge is classified
\* SANITIZED, also with an AuthzGate on the path; the admin-gated, sanitized
\* template-preview path is SANITIZED.
C2_SanitizedWhenLive ==
    /\ (/\ mode = "classified"
        /\ path.registered
        /\ SanitizerOrStrictOnPath(path)
        /\ NoNeverEdge(path)) => verdict = "SANITIZED"
    /\ FixtureClassified("VULN7") =>
         /\ Len(paths) = 1
         /\ NodeOnPath(paths[1], "admin_required")
         /\ TagOnPath(paths[1], "authz-gate")
         /\ pathVerdicts = <<"SANITIZED">>

\* C2 witness: a live path with both an authorization gate and a sanitizer
\* was classified SANITIZED.
C2_Witness ==
    /\ mode = "classified"
    /\ path.registered
    /\ NoNeverEdge(path)
    /\ TagOnPath(path, "authz-gate")
    /\ TagOnPath(path, "sanitizer")
    /\ verdict = "SANITIZED"

\* C3: a sink with at least one VULNERABLE path verdict is MUST_FIX however
\* many other verdicts accompany it; /api/search (one unprotected path) and
\* /report (live detailed-report path plus another path) are MUST_FIX.
C3_VulnerablePathMustFix ==
    /\ (mode = "aggregated" /\ Count(pathVerdicts, "VULNERABLE") > 0)
         => sinkVerdict.overall = "MUST_FIX"
    /\ (mode = "aggregated" /\ sink = "VULN1") =>
         /\ pathVerdicts = <<"VULNERABLE">>
         /\ sinkVerdict.overall = "MUST_FIX"
    /\ (mode = "aggregated" /\ sink = "ACCT_REPORT") =>
         /\ Len(pathVerdicts) = 2
         /\ NodeOnPath(paths[1], "get_detailed_report")
         /\ pathVerdicts[1] = "VULNERABLE"
         /\ sinkVerdict.overall = "MUST_FIX"

\* C4: the three paths of /api/legacy/import through process_legacy_import
\* classify as DEAD (legacy_mode_enabled branch), SANITIZED (validated
\* modern import) and DEAD (admin_legacy_mode branch); the sink verdict is
\* FALSE_POSITIVE with reason sanitized and its evidence lists all three
\* paths, two dead and one sanitized.
C4_LegacyImportMixedScenario ==
    (mode = "aggregated" /\ sink = "VULN8") =>
        /\ Len(paths) = 3
        /\ \A i \in DOMAIN paths :
              /\ NodeOnPath(paths[i], "process_legacy_import")
              /\ NodeOnPath(paths[i], "execute_legacy_query")
                    => pathVerdicts[i] = "DEAD"
              /\ NodeOnPath(paths[i], "_process_admin_legacy_import")
                    => pathVerdicts[i] = "DEAD"
              /\ NodeOnPath(paths[i], "_process_modern_import_with_query")
                    => pathVerdicts[i] = "SANITIZED"
        /\ sinkVerdict.overall = "FALSE_POSITIVE"
        /\ sinkVerdict.reason = {"SANITIZED"}
        /\ Len(sinkVerdict.evidence) = 3
        /\ Count(sinkVerdict.evidence, "DEAD") = 2
        /\ Count(sinkVerdict.evidence, "SANITIZED") = 1

\* C4 witness: the legacy-import sink was aggregated from its three paths.
C4_Witness ==
    /\ mode = "aggregated"
    /\ sink = "VULN8"
    /\ \E i, j, k \in DOMAIN paths :
          /\ NodeOnPath(paths[i], "execute_legacy_query")
          /\ NodeOnPath(paths[j], "_process_modern_import_with_query")
          /\ NodeOnPath(paths[k], "_process_admin_legacy_import")
    /\ sinkVerdict.overall = "FALSE_POSITIVE"

\* C5: a path from an entry point outside the registered set is DEAD
\* whatever its roles and conditions (internal_diagnostic_endpoint,
\* unused_legacy_search), so a sink reached only from such entry points is
\* never MUST_FIX or GOOD_TO_FIX.
C5_UnregisteredEntryIsDead ==
    /\ (mode = "classified" /\ ~path.registered) => verdict = "DEAD"
    /\ (mode = "classified"
        /\ path.entry \in {"internal_diagnostic_endpoint", "unused_legacy_search"})
         => verdict = "DEAD"
    /\ \A s \in {"DIAGNOSTIC", "ACCT_LEGACY_SEARCH"} :
         FixtureClassified(s) =>
            /\ Len(pathVerdicts) = 1
            /\ pathVerdicts = <<"DEAD">>
    /\ (/\ mode = "aggregated"
        /\ paths # <<>>
        /\ \A i \in DOMAIN paths : ~paths[i].registered)
         => sinkVerdict.overall \notin {"MUST_FIX", "GOOD_TO_FIX"}

\* C5 witness: the path from internal_diagnostic_endpoint, with no Never
\* edge and no protective node, was classified DEAD.
C5_Witness ==
    /\ mode = "classified"
    /\ path.entry = "internal_diagnostic_endpoint"
    /\ NodeOnPath(path, "run_diagnostic_query")
    /\ NoNeverEdge(path)
    /\ verdict = "DEAD"

\* C6: a sink whose path verdicts are all DEAD is DEAD_CODE, and DEAD_CODE
\* is given in no other case; deprecated_batch_processor is DEAD_CODE.
C6_AllDeadIsDeadCode ==
    /\ mode = "aggregated" =>
         (sinkVerdict.overall = "DEAD_CODE"
            <=> \A i \in DOMAIN pathVerdicts : pathVerdicts[i] = "DEAD")
    /\ (mode = "aggregated" /\ sink = "BATCH") =>
         /\ Len(pathVerdicts) = 1
         /\ sinkVerdict.overall = "DEAD_CODE"

\* C6 witness: the sink in deprecated_batch_processor, with one dead path,
\* was aggregated to DEAD_CODE.
C6_Witness ==
    /\ mode = "aggregated"
    /\ sink = "BATCH"
    /\ pathVerdicts = <<"DEAD">>
    /\ sinkVerdict.overall = "DEAD_CODE"

\* C7: feeding the path verdicts of a sink in any other order gives the same
\* overall verdict and the same reason set.
C7_AggregationOrderIndependent ==
    mode = "aggregated" =>
        \A f \in Permutations(DOMAIN pathVerdicts) :
            LET shuffled == [i \in DOMAIN pathVerdicts |-> pathVerdicts[f[i]]]
                other    == aggregate(sink, shuffled)
            IN  /\ other.overall = sinkVerdict.overall
                /\ other.reason = sinkVerdict.reason
                /\ other.sink = sinkVerdict.sink

\* C7 witness: three different verdicts were aggregated, a benign one first
\* and the VULNERABLE one last.
C7_Witness ==
    /\ mode = "aggregated"
    /\ Len(pathVerdicts) = 3
    /\ pathVerdicts[1] = "AUTH_PROTECTED"
    /\ pathVerdicts[2] = "PARTIALLY_MITIGATED"
    /\ pathVerdicts[3] = "VULNERABLE"

\* C8: when every live path of a sink is SANITIZED or AUTH_PROTECTED and
\* there is at least one, the sink is FALSE_POSITIVE and the reason is the
\* set of the live verdict kinds present; /api/user/profile is
\* FALSE_POSITIVE with reason sanitized.
C8_BenignMixIsFalsePositive ==
    /\ (/\ mode = "aggregated"
        /\ \E i \in DOMAIN pathVerdicts : pathVerdicts[i] # "DEAD"
        /\ \A i \in DOMAIN pathVerdicts :
              pathVerdicts[i] \in {"DEAD", "SANITIZED", "AUTH_PROTECTED"})
         => /\ sinkVerdict.overall = "FALSE_POSITIVE"
            /\ sinkVerdict.reason =
                 {v \in {"SANITIZED", "AUTH_PROTECTED"} : Count(pathVerdicts, v) > 0}
    /\ (mode = "aggregated" /\ sink = "VULN2") =>
         /\ NodeOnPath(paths[1], "validate_user_id")
         /\ pathVerdicts = <<"SANITIZED">>
         /\ sinkVerdict.overall = "FALSE_POSITIVE"
         /\ sinkVerdict.reason = {"SANITIZED"}

\* C8 witness: a SANITIZED, an AUTH_PROTECTED and a DEAD path gave
\* FALSE_POSITIVE with both benign kinds as the reason.
C8_Witness ==
    /\ mode = "aggregated"
    /\ Count(pathVerdicts, "SANITIZED") = 1
    /\ Count(pathVerdicts, "AUTH_PROTECTED") = 1
    /\ Count(pathVerdicts, "DEAD") = 1
    /\ sinkVerdict.overall = "FALSE_POSITIVE"
    /\ sinkVerdict.reason = {"SANITIZED", "AUTH_PROTECTED"}

\* C9: a live path whose only protective node is a Weak validator is
\* PARTIALLY_MITIGATED, and a sink with such a path and no VULNERABLE path
\* is GOOD_TO_FIX; /api/render/custom (check_template_safety before
\* render_user_template) is GOOD_TO_FIX.
C9_WeakValidatorGoodToFix ==
    /\ (/\ mode = "classified"
        /\ path.registered
        /\ NoNeverEdge(path)
        /\ TagOnPath(path, "validator-weak")
        /\ ~SanitizerOrStrictOnPath(path)
        /\ ~TagOnPath(path, "authz-gate")) => verdict = "PARTIALLY_MITIGATED"
    /\ (/\ mode = "aggregated"
        /\ Count(pathVerdicts, "PARTIALLY_MITIGATED") > 0
        /\ Count(pathVerdicts, "VULNERABLE") = 0)
         => sinkVerdict.overall = "GOOD_TO_FIX"
    /\ FixtureClassified("VULN4") =>
         /\ NodeOnPath(paths[1], "check_template_safety")
         /\ NodeOnPath(paths[1], "render_user_template")
         /\ pathVerdicts = <<"PARTIALLY_MITIGATED">>
    /\ (mode = "aggregated" /\ sink = "VULN4")
         => sinkVerdict.overall = "GOOD_TO_FIX"

\* C9 witness: the /api/render/custom sink was aggregated to GOOD_TO_FIX
\* from its weakly validated path.
C9_Witness ==
    /\ mode = "aggregated"
    /\ sink = "VULN4"
    /\ TagOnPath(paths[1], "validator-weak")
    /\ isLive(paths[1])
    /\ sinkVerdict.overall = "GOOD_TO_FIX"

\* C10: a live path through an AuthzGate with no Sanitizer and no Strict
\* Validator is AUTH_PROTECTED, also with a Weak validator on it; the
\* login-gated preferences path and the admin-gated audit-log path are
\* AUTH_PROTECTED.
C10_AuthGateBeforeWeakValidator ==
    /\ (/\ mode = "classified"
        /\ path.registered
        /\ NoNeverEdge(path)
        /\ TagOnPath(path, "authz-gate")
        /\ ~SanitizerOrStrictOnPath(path)) => verdict = "AUTH_PROTECTED"
    /\ FixtureClassified("VULN5") =>
         /\ NodeOnPath(paths[1], "login_required")
         /\ pathVerdicts = <<"AUTH_PROTECTED">>
    /\ FixtureClassified("VULN6") =>
         /\ NodeOnPath(paths[1], "admin_required")
         /\ NodeOnPath(paths[1], "get_audit_logs")
         /\ pathVerdicts = <<"AUTH_PROTECTED">>

\* C10 witness: a live path with an authorization gate and a Weak validator
\* was classified AUTH_PROTECTED.
C10_Witness ==
    /\ mode = "classified"
    /\ path.registered
    /\ NoNeverEdge(path)
    /\ TagOnPath(path, "authz-gate")
    /\ TagOnPath(path, "validator-weak")
    /\ verdict = "AUTH_PROTECTED"


(***************************************************************************)
(* The fixture at run time: import, template preview, report, flags.       *)
(***************************************************************************)
TemplateMarkers == { <<"{", "{">>, <<"}", "}">>, <<"{", "%">>, <<"%", "}">> }

SinkCallsOf(fn) == { i \in 1..Len(executed) : executed[i].fn = fn }

\* C17: whenever cursor.execute runs in _process_modern_import_with_query,
\* every caller-supplied value interpolated into the SQL text, the data field
\* and the type field, has passed validate_alphanumeric.
C17_ModernImportValuesValidated ==
    \A i \in SinkCallsOf("_process_modern_import_with_query") :
        \A j \in 1..Len(executed[i].values) :
            validate_alphanumeric(executed[i].values[j])

\* C18: the sanitized content that render_admin_preview hands to
\* render_template_string contains none of the markers {{ }} {% %}.
C18_SanitizedHasNoMarkers ==
    \A i \in SinkCallsOf("render_admin_preview") :
        \A m \in TemplateMarkers : ~Contains(executed[i].values[1], m)

\* C19: no request the application handles, a request for /report with
\* type=legacy among them, invokes AccountService.generate_legacy_report or
\* AccountRepository.get_legacy_report.
C19_LegacyReportNeverInvoked ==
    /\ "generate_legacy_report" \notin Range(called)
    /\ "get_legacy_report" \notin Range(called)

\* a request for /report with type=legacy was answered and called nothing
C19_Witness ==
    /\ request.op = "GET /report"
    /\ request.args[1] = "legacy"
    /\ request.args[2] # <<>>
    /\ response.status = "404"
    /\ called = <<>>

\* C20: after any sequence of process_legacy_import and enable_legacy_mode
\* calls on the serving instance both of its flags are False, and neither
\* execute_legacy_query nor _process_admin_legacy_import is called.
C20_LegacyFlagsStayFalse ==
    /\ legacy_service.legacy_mode_enabled = FALSE
    /\ legacy_service.admin_legacy_mode = FALSE
    /\ "execute_legacy_query" \notin Range(called)
    /\ "_process_admin_legacy_import" \notin Range(called)

\* an admin import that reached the modern query after enable_legacy_mode
\* was called with the accepted password
C20_Witness ==
    /\ temp_service # <<>>
    /\ request.op = "legacy_import_data"
    /\ request.args[2] = TRUE
    /\ SinkCallsOf("_process_modern_import_with_query") # {}


(***************************************************************************)
(* The engine on an ingested graph: report, enumeration, errors, units.    *)
(***************************************************************************)
Started(s) == units[s].stage # "pending"

Classified(s) == units[s].stage \in {"classified", "aggregated"}

EntriesOf(s) == { i \in DOMAIN report.sinks : report.sinks[i].sinkId = s }

ListedOnce(s) ==
    /\ Cardinality(EntriesOf(s)) = 1
    /\ \A i \in EntriesOf(s) :
           Len(report.sinks[i].paths) = Len(enumeratePaths(graph, s))

\* C11: for every graph, once the run has ended each Sink node has exactly
\* one entry in the sink list of the report, and the entry lists as many
\* paths as the enumerator produced for the sink, dead paths included.
C11_EverySinkListedOnce ==
    run \in {"rendered", "aborted"} =>
        \A s \in Range(IdsOfKind(graph, "Sink")) : ListedOnce(s)

WalkOf(p) == <<p.entry>> \o [i \in DOMAIN p.nodes |-> p.nodes[i].id]

\* C12: on every graph, self-loops and back-edges included, enumeration
\* ends with paths on which no node occurs more than once, so a path is
\* never longer than the number of nodes.
C12_RevisitCapBoundsPaths ==
    \A s \in DOMAIN units :
        Started(s) =>
            \A i \in DOMAIN units[s].paths :
                LET w == WalkOf(units[s].paths[i])
                IN  /\ \A x \in Range(w) : Occurrences(w, x) = 1
                    /\ s \notin Range(w)
                    /\ Len(w) < Cardinality(NodeIdsOf(graph))

HasEdge(from, to) ==
    \E i \in DOMAIN graph.edges :
        /\ graph.edges[i].from = from
        /\ graph.edges[i].to = to
        /\ graph.edges[i].cond # "Never"

\* a sink enumerated through the call node of a graph where that node
\* calls itself or calls back into the entry point
C12_Witness ==
    /\ HasEdge("a", "a") \/ HasEdge("a", "e1")
    /\ HasEdge("e1", "a")
    /\ "s1" \in DOMAIN units
    /\ Started("s1")
    /\ \E i \in DOMAIN units["s1"].paths :
           /\ units["s1"].paths[i].entry = "e1"
           /\ ~units["s1"].paths[i].truncated
           /\ Len(units["s1"].paths[i].nodes) = 1


\* the walks from an entry point over edges that are not Never, no node twice
RECURSIVE Walks(_, _)
Walks(g, ws) ==
    LET more == ws \cup
            UNION { { Append(w, g.edges[i].to) :
                        i \in { j \in DOMAIN g.edges :
                                  /\ g.edges[j].from = w[Len(w)]
                                  /\ g.edges[j].cond # "Never"
                                  /\ g.edges[j].to \notin Range(w)
                                  /\ NodeOf(g, g.edges[j].to).kind # "Sink" } } :
                    w \in ws }
    IN  IF more = ws THEN ws ELSE Walks(g, more)

LiveWalks(g) == Walks(g, { <<e>> : e \in Range(IdsOfKind(g, "EntryPoint")) })

\* the Never edge e met at the end of the walk w is a route to the sink s
NeverRoute(g, s, w, e) ==
    /\ e.cond = "Never"
    /\ e.from = w[Len(w)]
    /\ \/ e.to = s
       \/ /\ e.to \notin Range(w)
          /\ NodeOf(g, e.to).kind # "Sink"
          /\ Reaches(g, e.to, s)

\* C13: the search does not go past a Never edge, and for each Never edge
\* it meets on a route to the sink exactly one path is recorded, with
\* verdict DEAD.
C13_NeverEdgeRecordedOnce ==
    \A s \in DOMAIN units :
        Classified(s) =>
            LET ps == units[s].paths
            IN  /\ \A i \in DOMAIN ps :
                       HasNever(ps[i]) =>
                           /\ \A k \in DOMAIN ps[i].conds :
                                  ps[i].conds[k] = "Never" => k = Len(ps[i].conds)
                           /\ units[s].verdicts[i] = "DEAD"
                /\ \A w \in LiveWalks(graph) :
                       \A e \in Range(graph.edges) :
                           NeverRoute(graph, s, w, e) =>
                               Cardinality({ i \in DOMAIN ps :
                                   /\ HasNever(ps[i])
                                   /\ WalkOf(ps[i]) =
                                        (IF e.to = s THEN w ELSE Append(w, e.to)) }) = 1

\* a classified sink with a path cut at a Never edge whose target reaches
\* the sink over a further edge
C13_Witness ==
    \E s \in DOMAIN units :
        /\ Classified(s)
        /\ \E i \in DOMAIN units[s].paths :
              /\ units[s].paths[i].truncated
              /\ units[s].paths[i].registered
              /\ units[s].verdicts[i] = "DEAD"

UnknownTag(n) == n.tag \notin KnownRoleTags

\* C14: a node with a tag outside the known set has role None and a
\* warning in the report; a live path whose nodes carry no known tag and
\* at least one unknown tag is VULNERABLE.
C14_UnknownTagFailsClosed ==
    /\ \A n \in Range(graph.nodes) :
           UnknownTag(n) =>
               /\ classifyNode(n).role = "None"
               /\ run = "rendered" =>
                      [kind |-> "UnclassifiableRoleError", node |-> n.id]
                          \in report.warnings
    /\ \A s \in DOMAIN units :
           Classified(s) =>
               \A i \in DOMAIN units[s].paths :
                   LET p == units[s].paths[i]
                   IN  /\ isLive(p)
                       /\ \E k \in DOMAIN p.nodes : UnknownTag(p.nodes[k])
                       /\ \A k \in DOMAIN p.nodes :
                              UnknownTag(p.nodes[k]) \/ p.nodes[k].tag = "none"
                       => units[s].verdicts[i] = "VULNERABLE"

\* a report with a warning and a live path through the node it names
C14_Witness ==
    /\ run = "rendered"
    /\ report.warnings # {}
    /\ \E s \in DOMAIN units : \E i \in DOMAIN units[s].paths :
          /\ isLive(units[s].paths[i])
          /\ \E k \in DOMAIN units[s].paths[i].nodes :
                 UnknownTag(units[s].paths[i].nodes[k])
          /\ units[s].verdicts[i] = "VULNERABLE"

\* the sinks whose subgraph holds a structural defect
DefectSinks(g) ==
    LET sinks == Range(IdsOfKind(g, "Sink"))
    IN  OrphanedSinks(g)
          \cup { s \in sinks : \E i \in DanglingEdges(g) :
                                   Reaches(g, g.edges[i].from, s) }
          \cup { s \in sinks : \E d \in DuplicateIds(g) : Reaches(g, d, s) }

\* the graph without its dangling edges and repeated declarations
Repaired(g) ==
    [g EXCEPT
       !.edges = SelectSeq(g.edges, LAMBDA e :
                     e.from \in NodeIdsOf(g) /\ e.to \in NodeIdsOf(g)),
       !.nodes = LET first == SelectSeq([i \in DOMAIN g.nodes |-> i],
                                  LAMBDA i : \A k \in 1..(i - 1) :
                                                 g.nodes[k].id # g.nodes[i].id)
                 IN  [k \in DOMAIN first |-> g.nodes[first[k]]]]

EntryIn(rep, s) == { rep.sinks[i] : i \in { j \in DOMAIN rep.sinks :
                                             rep.sinks[j].sinkId = s } }

\* C15: when the subgraph of exactly one sink is malformed the run ends
\* with a report, and the entry of every other sink is the one the graph
\* without the defect gets.
C15_PartialFailureIsolated ==
    /\ run \in {"rendered", "aborted"}
    /\ Cardinality(DefectSinks(graph)) = 1
    => /\ run = "rendered"
       /\ \A s \in Range(IdsOfKind(graph, "Sink")) \ DefectSinks(graph) :
              EntryIn(report, s) = EntryIn(sequentialReport(Repaired(graph)), s)

\* C16: while a run is in progress the graph does not change, and the
\* report of every interleaving of the per-sink units is the report of
\* the sequential run.
C16_ReadOnlyOrderIndependent ==
    /\ [](run = "rendered" => report = sequentialReport(graph))
    /\ [][run = "running" => graph' = graph]_vars

\* the second sink is aggregated while the first is only enumerated
C16_Witness ==
    /\ run = "running"
    /\ DOMAIN units = {"s1", "s2"}
    /\ units["s1"].stage = "enumerated"
    /\ units["s2"].stage = "aggregated"
    /\ units["s1"].paths # <<>>
    /\ units["s2"].paths # <<>>
    /\ \E i \in DOMAIN graph.edges : graph.edges[i].cond = "Never"


(***************************************************************************)
(* Admin endpoints, rate limiter, profile lookup, SQL sanitizer.           *)
(***************************************************************************)
CalledBefore(first, second) ==
    \E i, j \in DOMAIN called :
        i < j /\ called[i] = first /\ called[j] = second

\* C21: whenever the render sink of render_admin_preview runs in a request
\* to /api/admin/template/preview, the same request passed the admin check
\* (user_id in the session and role admin), a CSRF token check (the header
\* token is present and equals the session token), the rate-limit check
\* and content sanitization before it.
C21_PreviewBehindFourProtections ==
    request.op = "admin_template_preview" =>
        \A i \in SinkCallsOf("render_admin_preview") :
            LET session == request.args[1]
                csrf_header == request.args[2]
            IN  /\ session.user_id # "absent"
                /\ session.role = "admin"
                /\ CalledBefore("admin_required", "render_admin_preview")
                /\ csrf_header # "absent"
                /\ csrf_header = session.csrf_token
                /\ CalledBefore("_check_rate_limit", "render_admin_preview")
                /\ "_sanitize_template_content" \in Range(called)
                /\ executed[i].values[1] = sanitize_template_content(request.args[3])

\* C22: when the calls of _check_rate_limit for an operation come one
\* after another (no two of them inside the function together; the clock
\* never runs backwards), at most 10 calls return True within any
\* 60-second window [t, t+60), and the stored list never holds more than
\* 10 timestamps.  A window holding the most calls starts at the timestamp
\* of one of them.
C22_SequentialRateLimit ==
    ~overlapped =>
        /\ \A operation \in RateLimitedOperations :
               Len(rate_limit_state[operation]) <= 10
        /\ \A t \in DOMAIN granted : GrantedWithin(t, 60) <= 10

\* calls one after another: 10 were let through, some 59 seconds after the
\* first, and the next call in the same window returned False
C22_Witness ==
    /\ ~overlapped
    /\ \E th \in Threads : limiter[th].pc = "False" /\ limiter[th].current_time = 59
    /\ BagCardinality(granted) = 10
    /\ DOMAIN granted = {0, 59}
    /\ Len(rate_limit_state["admin_template_preview"]) = 10

\* C24: on /api/admin/audit the SQL sink of get_audit_logs_by_date runs
\* only when the session holds user_id and role admin; without user_id the
\* answer is 401, with another role 403, and AdminService.get_audit_logs is
\* not reached in either case.
C24_AuditOnlyForAdmins ==
    request.op = "admin_audit_logs" =>
        LET session == request.args[1]
            reached == \/ "get_audit_logs" \in Range(called)
                       \/ SinkCallsOf("get_audit_logs_by_date") # {}
        IN  /\ reached => session.user_id # "absent" /\ session.role = "admin"
            /\ session.user_id = "absent" =>
                   response.status = "401" /\ ~reached
            /\ session.user_id # "absent" /\ session.role # "admin" =>
                   response.status = "403" /\ ~reached

\* an admin's audit request reached the SQL sink with a date filter
C24_Witness ==
    /\ request.op = "admin_audit_logs"
    /\ request.args[1].role = "admin"
    /\ request.args[2] # <<>>
    /\ SinkCallsOf("get_audit_logs_by_date") # {}
    /\ response.status = "200"


\* C23: on /api/user/profile the SQL sink of get_user_by_id_with_validation
\* runs only with a user_id that is a non-empty string of the digits 0-9;
\* for every other user_id validate_user_id raises ValueError and no query
\* runs.
C23_ProfileQueryOnlyForDigits ==
    request.op = "get_user_profile" =>
        LET user_id == request.args[1]
            digits  == /\ user_id # <<>>
                       /\ \A i \in DOMAIN user_id :
                              user_id[i] \in {"0", "1", "2", "3", "4",
                                              "5", "6", "7", "8", "9"}
            queries == SinkCallsOf("get_user_by_id_with_validation")
        IN  /\ \A i \in queries : digits /\ executed[i].values = <<user_id>>
            /\ ~digits => /\ executed = <<>>
                          /\ response.message = "ValueError"
                          /\ "get_user_by_id_with_validation" \notin Range(called)

\* a two-digit user_id reached the query
C23_Witness ==
    /\ request.op = "get_user_profile"
    /\ Len(request.args[1]) = 2
    /\ SinkCallsOf("get_user_by_id_with_validation") # {}
    /\ response.status = "200"

\* C25: for every input the result of either sanitize_sql_input contains
\* no single quote, double quote, semicolon, --, /* or */.
C25_SqlSanitizerRemovesTokens ==
    request.op = "sanitize_sql_input" =>
        \A k \in DOMAIN dangerous_chars :
            ~Contains(response.value, dangerous_chars[k])

====
